---- MODULE Spec2Model ----
(***************************************************************************)
(* The race engine: the counterfactual simulator, the removal filter and   *)
(* the scenario comparator (src/src/race_engine/what_if.py), the event      *)
(* detector (src/src/race_analysis_engine/analysis/event_detection.py) and  *)
(* the key events of the race facts (src/scripts/generate_race_facts.py),   *)
(* modelled on tables whose rows are records.  The simulator's times are    *)
(* integers (seconds).                                                      *)
(***************************************************************************)
EXTENDS Integers, Sequences, FiniteSets, TLC

VARIABLES lap_times, event_detection, events_to_remove, results_df, result, pc,
          scenarios, driver_id, comparison, cmp_pc,
          per_lap, telemetry, det_result, det_pc,
          events, race_key_events, facts_pc,
          events_df, filter_args, filtered, filter_pc,
          role_events, role_arg, payloads, role_pc

vars == <<lap_times, event_detection, events_to_remove, results_df, result, pc,
          scenarios, driver_id, comparison, cmp_pc,
          per_lap, telemetry, det_result, det_pc,
          events, race_key_events, facts_pc,
          events_df, filter_args, filtered, filter_pc,
          role_events, role_arg, payloads, role_pc>>

simVars == <<lap_times, event_detection, events_to_remove, results_df, result, pc>>
cmpVars == <<scenarios, driver_id, comparison, cmp_pc>>
detVars == <<per_lap, telemetry, det_result, det_pc>>
factsVars == <<events, race_key_events, facts_pc>>
filterVars == <<events_df, filter_args, filtered, filter_pc>>
roleVars == <<role_events, role_arg, payloads, role_pc>>

----------------------------------------------------------------------------
(* Bounds of the model and the small sets the inputs are drawn from.       *)

MaxLapRows == 2
MaxEvents == 2
MaxFilterRows == 2
MaxScenarios == 2
MaxDetLaps == 3
MaxSamples == 4
MaxCatEvents == 5
MaxFilterEvents == 2
MaxWindowLaps == 5
MaxOtherLaps == 2
MaxRoleEvents == 2

\* Vehicle ids in ascending order of Python's string comparison.
VehicleOrder == <<"A", "B">>
Vehicles == {VehicleOrder[i] : i \in DOMAIN VehicleOrder}
LapTimeValues == {100, 105}
EventIds == {"e1", "e2"}
TimeLossValues == {5}
ScenarioLabels == <<"S1", "S2", "S3">>

SeqsUpTo(S, n) == UNION {[1..k -> S] : k \in 0..n}

LapRows == [vehicle_id : Vehicles, lap_time_seconds : LapTimeValues]
EventRows == [event_id : EventIds, vehicle_id : Vehicles,
              time_loss_estimate : TimeLossValues]

\* A lap-time table: has_cols says whether it carries the vehicle_id and
\* lap_time_seconds columns.
LapTables ==
    {[has_cols |-> TRUE, rows |-> r] : r \in SeqsUpTo(LapRows, MaxLapRows)}
    \cup {[has_cols |-> FALSE, rows |-> <<>>]}

EventTables == SeqsUpTo(EventRows, MaxEvents)

\* events_to_remove: None, a table with an event_id column, or a table
\* without one whose only column shared with the events is vehicle_id.
RemovalFilters ==
    {[kind |-> "None", rows |-> <<>>]}
    \cup {[kind |-> "event_id", rows |-> r] :
            r \in SeqsUpTo([event_id : EventIds], MaxFilterRows)}
    \cup {[kind |-> "columns", rows |-> r] :
            r \in SeqsUpTo([vehicle_id : Vehicles], MaxFilterRows)}

\* results_df: None (given = FALSE), or a table; has_cols says whether its
\* columns, stripped and upper-cased, include VEHICLE and POSITION.
ResultsChoices ==
    { [given |-> FALSE, has_cols |-> FALSE, rows |-> <<>>],
      [given |-> TRUE, has_cols |-> TRUE, rows |-> <<>>],
      [given |-> TRUE, has_cols |-> FALSE,
       rows |-> <<[VEHICLE |-> "A", POSITION |-> 1]>>],
      [given |-> TRUE, has_cols |-> TRUE,
       rows |-> <<[VEHICLE |-> "B", POSITION |-> 1]>>],
      [given |-> TRUE, has_cols |-> TRUE,
       rows |-> <<[VEHICLE |-> "A", POSITION |-> 2],
                  [VEHICLE |-> "B", POSITION |-> 1]>>] }

----------------------------------------------------------------------------
(* Nullable numbers: <<>> is NaN, <<x>> is the number x.                    *)

NaN == <<>>
Num(x) == <<x>>

----------------------------------------------------------------------------
(* simulate_no_events                                                       *)

RECURSIVE SumField(_, _, _)
\* Sum of rows[i][field] over the rows of vehicle v.
SumField(rows, v, field) ==
    IF rows = <<>> THEN 0
    ELSE (IF Head(rows).vehicle_id = v THEN Head(rows)[field] ELSE 0)
         + SumField(Tail(rows), v, field)

VehiclesOf(rows) == {rows[i].vehicle_id : i \in DOMAIN rows}

\* groupby("vehicle_id") keeps one key per vehicle, in ascending key order.
GroupKeys(rows) == SelectSeq(VehicleOrder, LAMBDA v : v \in VehiclesOf(rows))

\* totals = lt.groupby("vehicle_id")["lap_time_seconds"].sum()
Totals(rows) ==
    LET keys == GroupKeys(rows)
    IN  [i \in DOMAIN keys |->
            [vehicle_id |-> keys[i],
             real_total_time |-> SumField(rows, keys[i], "lap_time_seconds")]]

\* Does the filter row f match the event e on the merge key?
MergeKeyMatch(e, f, kind) ==
    IF kind = "event_id" THEN e.event_id = f.event_id
    ELSE e.vehicle_id = f.vehicle_id

MatchCount(e, rm) ==
    Cardinality({i \in DOMAIN rm.rows : MergeKeyMatch(e, rm.rows[i], rm.kind)})

RECURSIVE InnerMerge(_, _)
\* ev.merge(events_to_remove, how="inner"): one output row for every pair
\* (event row, filter row) that agrees on the key.
InnerMerge(ev, rm) ==
    IF ev = <<>> THEN <<>>
    ELSE [i \in 1..MatchCount(Head(ev), rm) |-> Head(ev)]
         \o InnerMerge(Tail(ev), rm)

\* The events whose loss is subtracted.
EventsKept(ed, rm) ==
    IF ed # <<>> /\ rm.kind # "None" THEN InnerMerge(ed, rm) ELSE ed

\* tl = ev.groupby("vehicle_id")["time_loss_estimate"].sum()
EventLoss(ev) ==
    [v \in VehiclesOf(ev) |-> SumField(ev, v, "time_loss_estimate")]

\* totals.to_frame().join(tl, how="left").fillna(0), then adj_total_time.
JoinLoss(totals, tl) ==
    [i \in DOMAIN totals |->
        LET v == totals[i].vehicle_id
            loss == IF v \in DOMAIN tl THEN tl[v] ELSE 0
        IN  [vehicle_id |-> v,
             real_total_time |-> totals[i].real_total_time,
             total_event_loss |-> loss,
             adj_total_time |-> totals[i].real_total_time - loss]]

IndexPerms(n) ==
    {p \in [1..n -> 1..n] : \A i, j \in 1..n : i # j => p[i] # p[j]}

\* A sort that leaves the rows in the order of the grouped totals.
SortValues_Unsorted(df) == {df}

\* df.sort_values("adj_total_time"): the default sort is not stable, so rows
\* with equal keys may come out in any order.
SortValues(df) ==
    {[i \in DOMAIN df |-> df[p[i]]] :
        p \in {q \in IndexPerms(Len(df)) :
                 \A i, j \in DOMAIN df :
                    i < j => df[q[i]].adj_total_time <= df[q[j]].adj_total_time}}

\* pos_map = {row["VEHICLE"]: row["POSITION"] for ...}: the last row of a
\* vehicle wins; a vehicle without a row maps to NaN.
PosMap(rs, v) ==
    LET idx == {i \in DOMAIN rs.rows : rs.rows[i].VEHICLE = v}
    IN  IF idx = {} THEN NaN
        ELSE Num(rs.rows[CHOOSE i \in idx : \A j \in idx : j <= i].POSITION)

RealPosition(rs, v) ==
    IF rs.given /\ rs.rows # <<>>
    THEN (IF rs.has_cols THEN PosMap(rs, v) ELSE NaN)
    ELSE NaN

\* The difference taken the other way round.
PositionChange_Swapped(real_position, adj_position) ==
    IF real_position = NaN THEN NaN ELSE Num(adj_position - real_position[1])

\* df["real_position"] - df["adj_position"]
PositionChange(real_position, adj_position) ==
    IF real_position = NaN THEN NaN ELSE Num(real_position[1] - adj_position)

WithPositions(sorted, rs) ==
    [i \in DOMAIN sorted |->
        LET rp == RealPosition(rs, sorted[i].vehicle_id)
        IN  [vehicle_id |-> sorted[i].vehicle_id,
             real_total_time |-> sorted[i].real_total_time,
             total_event_loss |-> sorted[i].total_event_loss,
             adj_total_time |-> sorted[i].adj_total_time,
             adj_position |-> i,
             real_position |-> rp,
             position_change |-> PositionChange(rp, i)]]

NotRun == [status |-> "not_run", rows |-> <<>>]
\* pd.DataFrame(): no rows and no columns.
EmptyFrame == [status |-> "empty", rows |-> <<>>]
\* DataFrame.join raises ValueError on a Series that has no name.
RaisedValueError == [status |-> "ValueError", rows |-> <<>>]

\* tl has a name only when it comes from the groupby.
LossSeriesNamed(ev) == ev # <<>>

\* Every result the call can produce.
SimulateOutcomes(lt, ed, rm, rs) ==
    IF ~lt.has_cols THEN {EmptyFrame}
    ELSE LET ev == EventsKept(ed, rm)
         IN  IF ~LossSeriesNamed(ev) THEN {RaisedValueError}
             ELSE {[status |-> "ok", rows |-> WithPositions(s, rs)] :
                      s \in SortValues(JoinLoss(Totals(lt.rows), EventLoss(ev)))}

simulate_no_events ==
    /\ pc = "ready"
    /\ result' \in SimulateOutcomes(lap_times, event_detection,
                                    events_to_remove, results_df)
    /\ pc' = "done"
    /\ UNCHANGED <<lap_times, event_detection, events_to_remove, results_df>>
    /\ UNCHANGED <<cmpVars, detVars, factsVars, filterVars, roleVars>>

----------------------------------------------------------------------------
(* compare_scenarios                                                        *)

\* The inputs the compared scenarios are simulated from.
CmpLapChoices ==
    { [has_cols |-> TRUE,
       rows |-> <<[vehicle_id |-> "A", lap_time_seconds |-> 100],
                  [vehicle_id |-> "B", lap_time_seconds |-> 105]>>],
      [has_cols |-> TRUE,
       rows |-> <<[vehicle_id |-> "B", lap_time_seconds |-> 105]>>],
      [has_cols |-> TRUE, rows |-> <<>>],
      [has_cols |-> FALSE, rows |-> <<>>] }

CmpEvents ==
    <<[event_id |-> "e1", vehicle_id |-> "A", time_loss_estimate |-> 5],
      [event_id |-> "e2", vehicle_id |-> "B", time_loss_estimate |-> 5]>>

CmpFilterChoices ==
    { [kind |-> "None", rows |-> <<>>],
      [kind |-> "event_id", rows |-> <<[event_id |-> "e1"]>>],
      [kind |-> "event_id", rows |-> <<[event_id |-> "e2"]>>],
      [kind |-> "columns", rows |-> <<[vehicle_id |-> "B"]>>] }

NoResults == [given |-> FALSE, has_cols |-> FALSE, rows |-> <<>>]

\* The exceptions the loop body's except clause catches.
CaughtExceptions == {"IndexError", "KeyError", "ValueError"}

\* results_df[results_df["vehicle_id"] == driver_id].iloc[0], taken from
\* the first row of the frame whoever it belongs to.
CompareRow_FirstRow(frame, d) ==
    IF frame.status = "empty" THEN [raised |-> "KeyError"]
    ELSE IF frame.rows = <<>> THEN [raised |-> "IndexError"]
         ELSE [raised |-> "no", row |-> Head(frame.rows)]

\* results_df[results_df["vehicle_id"] == driver_id].iloc[0]: KeyError when
\* the frame has no vehicle_id column, IndexError when no row matches.
CompareRow(frame, d) ==
    IF frame.status = "empty" THEN [raised |-> "KeyError"]
    ELSE LET m == SelectSeq(frame.rows, LAMBDA r : r.vehicle_id = d)
         IN  IF m = <<>> THEN [raised |-> "IndexError"]
             ELSE [raised |-> "no", row |-> Head(m)]

\* The entry built from a row; float() and int() leave the simulator's
\* numbers as they are.
CompareEntry(row) ==
    [total_time |-> row.adj_total_time,
     position |-> row.adj_position,
     time_gain |-> row.total_event_loss]

RECURSIVE CompareLoop(_, _, _)
\* for scenario_name, results_df in scenarios.items(): ... ; cmp is the
\* mapping built so far: status "ok", or the exception that escaped.
CompareLoop(scen, d, cmp) ==
    IF scen = <<>> THEN cmp
    ELSE LET r == CompareRow(Head(scen).results_df, d)
             name == Head(scen).label
         IN  IF r.raised = "no"
             THEN CompareLoop(Tail(scen), d,
                    [status |-> "ok",
                     scenarios |->
                        [l \in DOMAIN cmp.scenarios \cup {name} |->
                            IF l = name THEN CompareEntry(r.row)
                            ELSE cmp.scenarios[l]]])
             ELSE IF r.raised \in CaughtExceptions
                  THEN CompareLoop(Tail(scen), d, cmp)
                  ELSE [status |-> r.raised, scenarios |-> cmp.scenarios]

NoComparison == [status |-> "ok", scenarios |-> [l \in {} |-> 0]]

\* One more scenario is simulated and stored under the next label.
AddScenario ==
    /\ cmp_pc = "build"
    /\ Len(scenarios) < MaxScenarios
    /\ \E lt \in CmpLapChoices, rm \in CmpFilterChoices :
          \E frame \in SimulateOutcomes(lt, CmpEvents, rm, NoResults) :
             /\ frame.status # "ValueError"
             /\ scenarios' = Append(scenarios,
                    [label |-> ScenarioLabels[Len(scenarios) + 1],
                     results_df |-> frame])
    /\ UNCHANGED <<driver_id, comparison, cmp_pc>>
    /\ UNCHANGED <<simVars, detVars, factsVars, filterVars, roleVars>>

compare_scenarios ==
    /\ cmp_pc = "build"
    /\ comparison' = CompareLoop(scenarios, driver_id, NoComparison)
    /\ cmp_pc' = "done"
    /\ UNCHANGED <<scenarios, driver_id>>
    /\ UNCHANGED <<simVars, detVars, factsVars, filterVars, roleVars>>

----------------------------------------------------------------------------
(* Event detection (event_detection.py).  Lap times are in half seconds,   *)
(* peak G in 0.05 g, speed in 0.5 units, lateral acceleration in 0.1 g;    *)
(* severities and time losses are exact fractions [num, den].              *)

Rat(n, d) == [num |-> n, den |-> d]
Min(a, b) == IF a <= b THEN a ELSE b
Max(a, b) == IF a >= b THEN a ELSE b
Abs(a) == IF a >= 0 THEN a ELSE -a

\* The fraction n / d as it is.
Capped_Uncapped(n, d) == Rat(n, d)

\* min(1.0, x) of the fraction n / d.
Capped(n, d) == Rat(Min(n, d), d)

\* The three lap profiles the lap records are drawn from.
LapKinds ==
    { [lap_time_seconds |-> Num(180), peak_lat_G |-> Num(28), peak_long_G |-> Num(22)],
      [lap_time_seconds |-> Num(182), peak_lat_G |-> Num(26), peak_long_G |-> Num(22)],
      [lap_time_seconds |-> Num(190), peak_lat_G |-> Num(20), peak_long_G |-> Num(16)] }

\* A lap record: the lap number may be missing; end_time is a timestamp.
LapRecord(v, lap, end, k) ==
    [vehicle_id |-> v, lap |-> lap, end_time |-> end,
     lap_time_seconds |-> k.lap_time_seconds,
     peak_lat_G |-> k.peak_lat_G, peak_long_G |-> k.peak_long_G]

LapNumbers == {Num(n) : n \in 1..MaxDetLaps} \cup {NaN}

\* Lap records of the bounded tables: the lap ends at timestamp 10 * lap.
LapRecords ==
    {LapRecord(v, l, IF l = NaN THEN 0 ELSE 10 * l[1], k) :
        v \in Vehicles, l \in LapNumbers, k \in LapKinds}

\* Tables of one to MaxDetLaps records, one record per vehicle and lap, in
\* any order.
PerLapTables ==
    {t \in SeqsUpTo(LapRecords, MaxDetLaps) :
        /\ t # <<>>
        /\ \A i, j \in DOMAIN t :
            i # j => <<t[i].vehicle_id, t[i].lap>> # <<t[j].vehicle_id, t[j].lap>>}

VehicleRank(v) == CHOOSE i \in DOMAIN VehicleOrder : VehicleOrder[i] = v

RECURSIVE StableOrder(_, _)
\* The indices 1..n in ascending order of keys, equal keys in index order.
StableOrder(keys, n) ==
    IF n = 0 THEN <<>>
    ELSE LET prev == StableOrder(keys, n - 1)
             c == Cardinality({i \in DOMAIN prev : keys[prev[i]] <= keys[n]})
         IN  SubSeq(prev, 1, c) \o <<n>> \o SubSeq(prev, c + 1, n - 1)

\* per_lap.sort_values(['vehicle_id', 'lap']): a stable sort, missing lap
\* numbers last within their vehicle.
SortPerLap(t) ==
    LET big == MaxDetLaps + MaxWindowLaps + 2
        keys == [i \in DOMAIN t |->
                    VehicleRank(t[i].vehicle_id) * (big + 1)
                    + (IF t[i].lap = NaN THEN big ELSE t[i].lap[1])]
        ord == StableOrder(keys, Len(t))
    IN  [i \in DOMAIN t |-> t[ord[i]]]

\* Every row of the table, whatever its vehicle.
GroupOf_AllVehicles(t, v) == t

\* The rows of vehicle v, in the order of the table.
GroupOf(t, v) == SelectSeq(t, LAMBDA r : r.vehicle_id = v)

RECURSIVE SumNums(_)
\* Sum and count of the values of a sequence that are not NaN.
SumNums(s) ==
    IF s = <<>> THEN [sum |-> 0, n |-> 0]
    ELSE LET rest == SumNums(Tail(s))
         IN  IF Head(s) = NaN THEN rest
             ELSE [sum |-> rest.sum + Head(s)[1], n |-> rest.n + 1]

\* The mean of the up to three rows after position i.
RollingMean_Lookahead(g, i, field) ==
    SumNums([k \in 1..Min(3, Len(g) - i) |-> g[i + k][field]])

\* g.shift(1).rolling(3, min_periods=1).mean() at position i of group g:
\* the values of the up to three rows before i; n = 0 stands for NaN.
RollingMean(g, i, field) ==
    SumNums([k \in 1..Min(3, i - 1) |-> g[i - k][field]])

\* The pace_collapse test of one row against its rolling means.
PaceCollapse(g, i) ==
    LET r == g[i]
        t == RollingMean(g, i, "lap_time_seconds")
        la == RollingMean(g, i, "peak_lat_G")
        lo == RollingMean(g, i, "peak_long_G")
    IN  /\ t.n > 0
        /\ r.lap_time_seconds # NaN
        /\ 1000 * t.n * r.lap_time_seconds[1] > 1015 * t.sum
        /\ r.peak_lat_G # NaN /\ la.n > 0
        /\ la.n * r.peak_lat_G[1] < la.sum - 4 * la.n
        /\ r.peak_long_G # NaN /\ lo.n > 0
        /\ lo.n * r.peak_long_G[1] < lo.sum - 3 * lo.n

\* f"{vid}_L{lap}_T{ts}"
EventId(vid, lap, ts) == <<vid, "_L", lap, "_T", ts>>
\* f"{vid}_degradation_L{lap}_T{ts}"
DegradationId(vid, lap, ts) == <<vid, "_degradation_L", lap, "_T", ts>>

PaceCollapseEvent(g, i) ==
    LET r == g[i]
        t == RollingMean(g, i, "lap_time_seconds")
    IN  [event_id |-> EventId(r.vehicle_id, r.lap[1], r.end_time),
         vehicle_id |-> r.vehicle_id,
         lap |-> r.lap[1],
         timestamp |-> r.end_time,
         event_type |-> "pace_collapse",
         severity_score |-> Rat(7, 10),
         time_loss_estimate |->
            Rat(Max(t.n, t.n * r.lap_time_seconds[1] - t.sum), 2 * t.n)]

RECURSIVE PaceEvents(_, _)
\* The first loop over the sorted rows, from row i on.
PaceEvents(sorted, i) ==
    IF i > Len(sorted) THEN <<>>
    ELSE LET g == GroupOf(sorted, sorted[i].vehicle_id)
             k == Cardinality({j \in 1..i :
                                  sorted[j].vehicle_id = sorted[i].vehicle_id})
         IN  (IF PaceCollapse(g, k) THEN <<PaceCollapseEvent(g, k)>> ELSE <<>>)
             \o PaceEvents(sorted, i + 1)

RECURSIVE SumProd(_, _, _)
\* Sum over the rows of x[i] * y[i].
SumProd(x, y, n) == IF n = 0 THEN 0 ELSE x[n] * y[n] + SumProd(x, y, n - 1)

Ones(n) == [i \in 1..n |-> 1]

\* np.polyfit(x, y, 1)[0] as the fraction num / den of the least-squares
\* slope; den > 0 when the laps are not all the same.
SlopeNum(x, y) ==
    Len(x) * SumProd(x, y, Len(x))
    - SumProd(x, Ones(Len(x)), Len(x)) * SumProd(y, Ones(Len(x)), Len(x))
SlopeDen(x) ==
    Len(x) * SumProd(x, x, Len(x))
    - SumProd(x, Ones(Len(x)), Len(x)) * SumProd(x, Ones(Len(x)), Len(x))

HasNaN(g, field) == \E i \in DOMAIN g : g[i][field] = NaN
Column(g, field) == [i \in DOMAIN g |-> g[i][field][1]]

\* The trend is fitted to any group of two laps or more.
TrendFitted_TwoLaps(g) == Len(g) >= 2

\* len(g) < 3: continue
TrendFitted(g) == Len(g) >= 3

\* The degradation test of one vehicle's laps: both slopes are numbers,
\* the lap-time slope is above 0.1 s/lap and the lateral-G slope below -0.01.
Degradation(g) ==
    /\ TrendFitted(g)
    /\ ~HasNaN(g, "lap_time_seconds")
    /\ ~HasNaN(g, "peak_lat_G")
    /\ LET x == Column(g, "lap")
       IN  /\ SlopeDen(x) > 0
           /\ 5 * SlopeNum(x, Column(g, "lap_time_seconds")) > SlopeDen(x)
           /\ 5 * SlopeNum(x, Column(g, "peak_lat_G")) < -SlopeDen(x)

\* np.nanmean(lap_time_seconds.diff().fillna(0).clip(lower=0).tail(3)),
\* in seconds.
PositiveDeltas(g) ==
    LET y == Column(g, "lap_time_seconds")
        n == Len(g)
        m == Min(3, n)
        d == [i \in 1..n |-> IF i = 1 THEN 0 ELSE Max(0, y[i] - y[i - 1])]
    IN  Rat(SumProd(SubSeq(d, n - m + 1, n), Ones(m), m), 2 * m)

DegradationEvent(g) ==
    LET x == Column(g, "lap")
        last == g[Len(g)]
        num == SlopeNum(x, Column(g, "lap_time_seconds"))
    IN  [event_id |-> DegradationId(last.vehicle_id, last.lap[1], last.end_time),
         vehicle_id |-> last.vehicle_id,
         lap |-> last.lap[1],
         timestamp |-> last.end_time,
         event_type |-> "degradation_phase",
         severity_score |-> Capped(num, SlopeDen(x)),
         time_loss_estimate |-> PositiveDeltas(g)]

\* One trend fitted to all the rows of the table.
DegradationEvents_WholeTable(sorted, keys) ==
    IF Degradation(sorted) THEN <<DegradationEvent(sorted)>> ELSE <<>>

RECURSIVE DegradationEvents(_, _)
\* The second loop: per_lap.groupby('vehicle_id'), keys in ascending order.
DegradationEvents(sorted, keys) ==
    IF keys = <<>> THEN <<>>
    ELSE LET g == GroupOf(sorted, Head(keys))
         IN  (IF Degradation(g) THEN <<DegradationEvent(g)>> ELSE <<>>)
             \o DegradationEvents(sorted, Tail(keys))

\* int(row['lap']) raises ValueError on a missing lap number.
LapNumberMissing(t) == \E i \in DOMAIN t : t[i].lap = NaN

detect_lap_level_events(t) ==
    IF LapNumberMissing(t) THEN [status |-> "ValueError", events |-> <<>>]
    ELSE LET sorted == SortPerLap(t)
         IN  [status |-> "ok",
              events |-> PaceEvents(sorted, 1)
                         \o DegradationEvents(sorted, GroupKeys(sorted))]

\* A telemetry sample; every channel is a number or NaN.
Sample(spd, steer, accy, brake, rpm, g) ==
    [speed |-> spd, Steering_Angle |-> steer, accy_can |-> accy,
     pbrake_f |-> brake, nmot |-> rpm, gear |-> g]

\* The sample profiles the telemetry files are drawn from: steady running,
\* hard braking, a steering snap, a steering increase without response, hard
\* braking with a gear change and falling revs, and the same with the brake
\* channel missing.
SampleKinds ==
    { Sample(Num(200), Num(0), Num(10), Num(0), Num(6000), Num(3)),
      Sample(Num(180), Num(0), Num(5), Num(100), Num(6000), Num(3)),
      Sample(Num(190), Num(30), Num(30), Num(0), Num(6000), Num(3)),
      Sample(Num(192), Num(10), Num(10), Num(0), Num(6000), Num(3)),
      Sample(Num(180), Num(0), Num(5), Num(20), Num(4000), Num(4)),
      Sample(Num(180), Num(0), Num(5), NaN, Num(4000), Num(4)) }

\* A file row: a sample under its timestamp index.
Stamped(s, t) ==
    [ts |-> t, speed |-> s.speed, Steering_Angle |-> s.Steering_Angle,
     accy_can |-> s.accy_can, pbrake_f |-> s.pbrake_f, nmot |-> s.nmot,
     gear |-> s.gear]

\* df.sort_index(): rows in ascending order of timestamp.
SortIndex(rows) ==
    LET ord == StableOrder([i \in DOMAIN rows |-> rows[i].ts], Len(rows))
    IN  [i \in DOMAIN rows |-> rows[ord[i]]]

\* df[col].shift(k) at position i.
Lag(df, i, col, k) == IF i - k >= 1 THEN df[i - k][col] ELSE NaN

NotNa(x) == x # NaN

\* The third condition asks for a rise of the lateral acceleration.
Lockup_LateralRise(df, i) ==
    LET r == df[i]
    IN  /\ NotNa(r.pbrake_f) /\ NotNa(Lag(df, i, "pbrake_f", 2))
        /\ r.pbrake_f[1] - Lag(df, i, "pbrake_f", 2)[1] > 10
        /\ NotNa(Lag(df, i, "speed", 3)) /\ NotNa(r.speed)
        /\ NotNa(Lag(df, i, "accy_can", 3)) /\ NotNa(r.accy_can)
        /\ Lag(df, i, "speed", 3)[1] - r.speed[1] > 12
        /\ r.accy_can[1] - Lag(df, i, "accy_can", 3)[1] > 3

\* Lines 116-147: brake spike, speed drop, lateral drop.
Lockup(df, i) ==
    LET r == df[i]
    IN  /\ NotNa(r.pbrake_f) /\ NotNa(Lag(df, i, "pbrake_f", 2))
        /\ r.pbrake_f[1] - Lag(df, i, "pbrake_f", 2)[1] > 10
        /\ NotNa(Lag(df, i, "speed", 3)) /\ NotNa(r.speed)
        /\ NotNa(Lag(df, i, "accy_can", 3)) /\ NotNa(r.accy_can)
        /\ Lag(df, i, "speed", 3)[1] - r.speed[1] > 12
        /\ Lag(df, i, "accy_can", 3)[1] - r.accy_can[1] > 3

\* Lines 153-180.
NearSpin(df, i) ==
    LET r == df[i]
    IN  /\ NotNa(r.Steering_Angle) /\ NotNa(Lag(df, i, "Steering_Angle", 2))
        /\ Abs(r.Steering_Angle[1] - Lag(df, i, "Steering_Angle", 2)[1]) > 20
        /\ NotNa(r.accy_can) /\ NotNa(Lag(df, i, "accy_can", 3))
        /\ NotNa(Lag(df, i, "speed", 3)) /\ NotNa(r.speed)
        /\ r.accy_can[1] - Lag(df, i, "accy_can", 3)[1] > 15
        /\ Lag(df, i, "speed", 3)[1] - r.speed[1] > 8

\* The rule without its bound on the lateral change.
Understeer_NoLateralBound(df, i) ==
    LET r == df[i]
    IN  /\ NotNa(r.Steering_Angle) /\ NotNa(Lag(df, i, "Steering_Angle", 3))
        /\ r.Steering_Angle[1] - Lag(df, i, "Steering_Angle", 3)[1] > 8
        /\ NotNa(Lag(df, i, "speed", 3)) /\ NotNa(r.speed)
        /\ Lag(df, i, "speed", 3)[1] - r.speed[1] > 6

\* Lines 185-211.
Understeer(df, i) ==
    LET r == df[i]
    IN  /\ NotNa(r.Steering_Angle) /\ NotNa(Lag(df, i, "Steering_Angle", 3))
        /\ r.Steering_Angle[1] - Lag(df, i, "Steering_Angle", 3)[1] > 8
        /\ NotNa(r.accy_can) /\ NotNa(Lag(df, i, "accy_can", 3))
        /\ Abs(r.accy_can[1] - Lag(df, i, "accy_can", 3)[1]) < 2
        /\ NotNa(Lag(df, i, "speed", 3)) /\ NotNa(r.speed)
        /\ Lag(df, i, "speed", 3)[1] - r.speed[1] > 6

\* Lines 216-236.
MissedShift(df, i) ==
    LET r == df[i]
    IN  /\ NotNa(r.gear) /\ NotNa(Lag(df, i, "gear", 1))
        /\ r.gear[1] # Lag(df, i, "gear", 1)[1]
        /\ NotNa(Lag(df, i, "nmot", 1)) /\ NotNa(r.nmot)
        /\ Lag(df, i, "nmot", 1)[1] - r.nmot[1] > 1200
        /\ NotNa(r.speed) /\ NotNa(Lag(df, i, "speed", 1))
        /\ Abs(r.speed[1] - Lag(df, i, "speed", 1)[1]) < 3

SpeedLoss(df, i) == Lag(df, i, "speed", 3)[1] - df[i].speed[1]

\* The severity of each rule, as the code computes it from the deltas.
LockupSeverity(df, i) ==
    Capped(2 * Abs(df[i].pbrake_f[1] - Lag(df, i, "pbrake_f", 2)[1])
           + 5 * SpeedLoss(df, i)
           + 5 * (Lag(df, i, "accy_can", 3)[1] - df[i].accy_can[1]), 300)
NearSpinSeverity(df, i) ==
    Capped(3 * Abs(df[i].Steering_Angle[1] - Lag(df, i, "Steering_Angle", 2)[1])
           + 4 * (df[i].accy_can[1] - Lag(df, i, "accy_can", 3)[1])
           + 6 * SpeedLoss(df, i), 360)
UndersteerSeverity(df, i) ==
    Capped((df[i].Steering_Angle[1] - Lag(df, i, "Steering_Angle", 3)[1])
           + SpeedLoss(df, i), 40)
MissedShiftSeverity(df, i) ==
    Capped(Lag(df, i, "nmot", 1)[1] - df[i].nmot[1], 4000)

SampleEvent(vid, lap, df, i, type, sev, loss) ==
    [event_id |-> EventId(vid, lap, df[i].ts),
     vehicle_id |-> vid,
     lap |-> lap,
     timestamp |-> df[i].ts,
     event_type |-> type,
     severity_score |-> sev,
     time_loss_estimate |-> loss]

\* Every rule whose condition holds appends its event.
SampleRules_AllMatches(vid, lap, df, i) ==
    (IF Lockup(df, i)
     THEN <<SampleEvent(vid, lap, df, i, "lockup", LockupSeverity(df, i),
                        Rat(SpeedLoss(df, i), 18))>> ELSE <<>>)
    \o (IF NearSpin(df, i)
        THEN <<SampleEvent(vid, lap, df, i, "near_spin", NearSpinSeverity(df, i),
                           Rat(SpeedLoss(df, i), 18))>> ELSE <<>>)
    \o (IF Understeer(df, i)
        THEN <<SampleEvent(vid, lap, df, i, "understeer", UndersteerSeverity(df, i),
                           Rat(SpeedLoss(df, i), 18))>> ELSE <<>>)
    \o (IF MissedShift(df, i)
        THEN <<SampleEvent(vid, lap, df, i, "missed_shift",
                           MissedShiftSeverity(df, i), Rat(1, 2))>> ELSE <<>>)

\* The body of the sample loop: each rule appends its event and continues
\* with the next sample.
SampleRules(vid, lap, df, i) ==
    IF Lockup(df, i)
    THEN <<SampleEvent(vid, lap, df, i, "lockup", LockupSeverity(df, i),
                       Rat(SpeedLoss(df, i), 18))>>
    ELSE IF NearSpin(df, i)
    THEN <<SampleEvent(vid, lap, df, i, "near_spin", NearSpinSeverity(df, i),
                       Rat(SpeedLoss(df, i), 18))>>
    ELSE IF Understeer(df, i)
    THEN <<SampleEvent(vid, lap, df, i, "understeer", UndersteerSeverity(df, i),
                       Rat(SpeedLoss(df, i), 18))>>
    ELSE IF MissedShift(df, i)
    THEN <<SampleEvent(vid, lap, df, i, "missed_shift",
                       MissedShiftSeverity(df, i), Rat(1, 2))>>
    ELSE <<>>

RECURSIVE SampleLoop(_, _, _, _)
\* for idx in df.index[3:], from position i on.
SampleLoop(vid, lap, df, i) ==
    IF i > Len(df) THEN <<>>
    ELSE SampleRules(vid, lap, df, i) \o SampleLoop(vid, lap, df, i + 1)

\* The telemetry files of a vehicle and lap (any of the three file names).
FilesOf(files, vid, lap) ==
    {f \in files : f.vehicle_id = vid /\ f.lap = lap}

RECURSIVE TelemetryLoop(_, _, _)
\* The loop over the lap records, in the order of the input, from row i on.
TelemetryLoop(t, files, i) ==
    IF i > Len(t) THEN <<>>
    ELSE LET vid == t[i].vehicle_id
             lap == t[i].lap[1]
             found == FilesOf(files, vid, lap)
         IN  (IF found = {} THEN <<>>
              ELSE SampleLoop(vid, lap, SortIndex((CHOOSE f \in found : TRUE).rows), 4))
             \o TelemetryLoop(t, files, i + 1)

detect_telemetry_events(t, files) ==
    IF LapNumberMissing(t) THEN [status |-> "ValueError", events |-> <<>>]
    ELSE [status |-> "ok", events |-> TelemetryLoop(t, files, 1)]

\* main(): the lap-level events followed by the sample-level events.
DetectEvents(t, files) ==
    LET lap_events == detect_lap_level_events(t)
        tele_events == detect_telemetry_events(t, files)
    IN  IF lap_events.status # "ok" THEN lap_events
        ELSE IF tele_events.status # "ok" THEN tele_events
        ELSE [status |-> "ok", events |-> lap_events.events \o tele_events.events]

NoDetection == [status |-> "none", events |-> <<>>]

\* One run of the detector over the lap records and the telemetry files.
detect ==
    /\ det_pc = "ready"
    /\ det_result' = DetectEvents(per_lap, telemetry)
    /\ det_pc' = "done"
    /\ UNCHANGED <<per_lap, telemetry>>
    /\ UNCHANGED <<simVars, cmpVars, factsVars, filterVars, roleVars>>

\* The rows of a telemetry file: the samples s stamped 1..n, stored in
\* ascending or (reversed) in descending order of timestamp.
FileRows(s, reversed) ==
    [i \in DOMAIN s |->
        IF reversed THEN Stamped(s[Len(s) + 1 - i], Len(s) + 1 - i)
        ELSE Stamped(s[i], i)]

Kind(t, la, lo) == [lap_time_seconds |-> t, peak_lat_G |-> la, peak_long_G |-> lo]

\* The lap tables the telemetry is detected under; lap 2 of vehicle A has
\* the telemetry file and ends at the file's last timestamp (its end_time
\* is the largest timestamp of the lap, lap_processing.py line 106).
SampleLapTables(end) ==
    LET fast == Kind(Num(180), Num(28), Num(22))
        mid == Kind(Num(182), Num(26), Num(22))
        slow == Kind(Num(190), Num(20), Num(16))
        untimed == Kind(NaN, Num(28), Num(22))
    IN  { <<LapRecord("A", Num(1), 0, fast), LapRecord("A", Num(2), end, slow)>>,
          <<LapRecord("A", Num(2), end, slow), LapRecord("A", Num(1), 0, fast)>>,
          <<LapRecord("A", Num(1), 0, untimed), LapRecord("A", Num(2), end, slow)>>,
          <<LapRecord("A", Num(2), end, fast)>>,
          <<LapRecord("A", Num(1), 0, fast), LapRecord("A", Num(2), end, mid),
            LapRecord("A", Num(3), end + 10, slow)>>,
          <<LapRecord("B", Num(1), 0, fast), LapRecord("A", Num(2), end, fast)>>,
          <<LapRecord("A", Num(2), end, fast), LapRecord("A", NaN, 0, fast)>> }

\* The lap profiles of the longer histories: 90, 91, 90.5 and 95 s.
WindowKinds ==
    { Kind(Num(180), Num(28), Num(22)), Kind(Num(182), Num(26), Num(22)),
      Kind(Num(181), Num(28), Num(22)), Kind(Num(190), Num(20), Num(16)) }
\* The other vehicle runs its first lap in 90 s and the later ones in 95 s.
OtherKinds(m) ==
    [i \in 1..m |-> IF i = 1 THEN Kind(Num(180), Num(28), Num(22))
                    ELSE Kind(Num(190), Num(20), Num(16))]

\* The laps 1..n of vehicle v with the profiles ks.
History(v, ks) == [i \in DOMAIN ks |-> LapRecord(v, Num(i), 10 * i, ks[i])]

Reversed(t) == [i \in DOMAIN t |-> t[Len(t) + 1 - i]]

\* Histories of up to MaxWindowLaps laps of vehicle A followed by up to
\* MaxOtherLaps laps of vehicle B, in this order or in the reverse one.
WindowTables ==
    {IF rev THEN Reversed(History("A", a) \o History("B", OtherKinds(m)))
     ELSE History("A", a) \o History("B", OtherKinds(m)) :
        a \in SeqsUpTo(WindowKinds, MaxWindowLaps) \ {<<>>},
        m \in 0..MaxOtherLaps,
        rev \in BOOLEAN}

----------------------------------------------------------------------------
(* Key events of the race facts (scripts/generate_race_facts.py).           *)
(* Severities are in tenths, time losses in half seconds.                   *)

SeverityValues == {5, 7}
LossValues == {1, 2}

\* The event lists of the bounded sets: the event at position i of the
\* detection order carries i as its lap.
EventLists ==
    {[i \in DOMAIN s |->
        [vehicle_id |-> "A", lap |-> i, event_type |-> "lockup",
         severity_score |-> s[i][1], time_loss_estimate |-> s[i][2]]] :
     s \in SeqsUpTo(SeverityValues \X LossValues, MaxCatEvents)}

\* sort_values on one column, descending, by a stable sort.
SortDescending(evs, col) ==
    LET ord == StableOrder([i \in DOMAIN evs |-> -evs[i][col]], Len(evs))
    IN  [i \in DOMAIN evs |-> evs[ord[i]]]

\* The same order of keys with equal keys in reverse input order.
SortEvents_TiesReversed(evs) ==
    LET rev == [i \in DOMAIN evs |-> evs[Len(evs) + 1 - i]]
    IN  SortDescending(SortDescending(rev, "time_loss_estimate"), "severity_score")

\* events.sort_values(['severity_score', 'time_loss_estimate'],
\* ascending=[False, False]): a lexsort, the last key sorted first.
SortEvents(evs) ==
    SortDescending(SortDescending(evs, "time_loss_estimate"), "severity_score")

\* evs_sorted.head(6)
TopN(evs) == SubSeq(evs, 1, Min(6, Len(evs)))

event_to_object(ev_row) ==
    [event_type |-> ev_row.event_type, lap |-> ev_row.lap,
     vehicle_id |-> ev_row.vehicle_id, severity |-> ev_row.severity_score,
     time_loss |-> ev_row.time_loss_estimate]

WithRole(obj, role) ==
    [event_type |-> obj.event_type, lap |-> obj.lap,
     vehicle_id |-> obj.vehicle_id, severity |-> obj.severity,
     time_loss |-> obj.time_loss, role |-> role]

\* Every entry is labelled major_mistake.
RoleAt_AllMistakes(i) == "major_mistake"

\* The role of the entry appended at position i of race_key_events.
RoleAt(i) == IF i = 1 THEN "race_turning_point" ELSE "major_mistake"

\* The race_key_events part of compose_race_facts.
KeyEvents(evs) ==
    IF evs = <<>> THEN <<>>
    ELSE LET topn == TopN(SortEvents(evs))
         IN  [i \in 1..Min(4, Len(topn)) |->
                 WithRole(event_to_object(topn[i]), RoleAt(i))]

compose_race_facts ==
    /\ facts_pc = "ready"
    /\ race_key_events' = KeyEvents(events)
    /\ facts_pc' = "done"
    /\ UNCHANGED events
    /\ UNCHANGED <<simVars, cmpVars, detVars, filterVars, roleVars>>

----------------------------------------------------------------------------
(* filter_events_for_removal (what_if.py).  "None" is Python's None; an      *)
(* event table carries a role column or not, and in a labelled table the    *)
(* events outside the key events have the role "None" (a missing value).    *)

FilterEventTypes == {"lockup", "understeer"}
Roles == {"race_turning_point", "major_mistake"}

\* Event tables of at most MaxFilterEvents rows, with and without the role
\* column; the event at position i has the id i.
FilterEventTables ==
    {[has_role |-> TRUE,
      rows |-> [i \in DOMAIN s |->
                  [event_id |-> i, vehicle_id |-> s[i][1], event_type |-> s[i][2],
                   role |-> s[i][3]]]] :
        s \in SeqsUpTo(Vehicles \X FilterEventTypes \X (Roles \cup {"None"}),
                       MaxFilterEvents)}
    \cup
    {[has_role |-> FALSE,
      rows |-> [i \in DOMAIN s |->
                  [event_id |-> i, vehicle_id |-> s[i][1], event_type |-> s[i][2]]]] :
        s \in SeqsUpTo(Vehicles \X FilterEventTypes, MaxFilterEvents)}

FilterArgs ==
    [vehicle_id : Vehicles \cup {"None"},
     event_type : FilterEventTypes \cup {"None"},
     role : Roles \cup {"None"}]

\* if role is not None and "role" in df.columns: df = df[df["role"] == role]
RoleKept(df, role, r) ==
    (role # "None" /\ df.has_role) => r.role = role

FilterEventsForRemoval(df, vehicle_id, event_type, role) ==
    [has_role |-> df.has_role,
     rows |-> SelectSeq(df.rows,
                LAMBDA r : /\ (vehicle_id # "None" => r.vehicle_id = vehicle_id)
                           /\ (event_type # "None" => r.event_type = event_type)
                           /\ RoleKept(df, role, r))]

NoEvents == [has_role |-> FALSE, rows |-> <<>>]

filter_events_for_removal ==
    /\ filter_pc = "ready"
    /\ filtered' = FilterEventsForRemoval(events_df, filter_args.vehicle_id,
                       filter_args.event_type, filter_args.role)
    /\ filter_pc' = "done"
    /\ UNCHANGED <<events_df, filter_args>>
    /\ UNCHANGED <<simVars, cmpVars, detVars, factsVars, roleVars>>

----------------------------------------------------------------------------
(* simulate_event_removal_by_role and build_what_if_payload                 *)

\* The lap times the removal by role is run on.
RoleLapChoices ==
    { [has_cols |-> TRUE,
       rows |-> <<[vehicle_id |-> "A", lap_time_seconds |-> 100],
                  [vehicle_id |-> "B", lap_time_seconds |-> 105]>>],
      [has_cols |-> TRUE,
       rows |-> <<[vehicle_id |-> "A", lap_time_seconds |-> 105],
                  [vehicle_id |-> "B", lap_time_seconds |-> 100]>>],
      [has_cols |-> TRUE,
       rows |-> <<[vehicle_id |-> "A", lap_time_seconds |-> 100],
                  [vehicle_id |-> "B", lap_time_seconds |-> 100]>>],
      [has_cols |-> TRUE,
       rows |-> <<[vehicle_id |-> "B", lap_time_seconds |-> 105]>>],
      [has_cols |-> FALSE, rows |-> <<>>] }

\* Event tables of at most MaxRoleEvents rows, with and without the role
\* column; the event at position i has the id i.
RoleEventTables ==
    {[has_role |-> TRUE,
      rows |-> [i \in DOMAIN s |->
                  [event_id |-> i, vehicle_id |-> s[i][1],
                   time_loss_estimate |-> s[i][2], role |-> s[i][3]]]] :
        s \in SeqsUpTo(Vehicles \X TimeLossValues \X (Roles \cup {"None"}),
                       MaxRoleEvents)}
    \cup
    {[has_role |-> FALSE,
      rows |-> [i \in DOMAIN s |->
                  [event_id |-> i, vehicle_id |-> s[i][1],
                   time_loss_estimate |-> s[i][2]]]] :
        s \in SeqsUpTo(Vehicles \X TimeLossValues, MaxRoleEvents)}

\* int(o.get("real_position", a.get("adj_position", 0))), and on a value
\* that int() rejects int(o.get("adj_position", 0)).
OrigPos(o, a) ==
    LET first == IF "real_position" \in DOMAIN o THEN o.real_position
                 ELSE IF "adj_position" \in DOMAIN a THEN Num(a.adj_position)
                 ELSE Num(0)
    IN  IF first # NaN THEN first[1]
        ELSE IF "adj_position" \in DOMAIN o THEN o.adj_position ELSE 0

\* orig_pos - adj_pos if orig_pos > 0 and adj_pos > 0 else None
PosChange(orig_pos, adj_pos) ==
    IF orig_pos > 0 /\ adj_pos > 0 THEN Num(orig_pos - adj_pos) ELSE NaN

\* "improved" if pos_change and pos_change > 0
\* else ("unchanged" if pos_change == 0 else "declined")
ResultImprovement(pos_change) ==
    IF pos_change # NaN /\ pos_change[1] # 0 /\ pos_change[1] > 0 THEN "improved"
    ELSE IF pos_change = Num(0) THEN "unchanged"
    ELSE "declined"

\* f"Remove all {role} events"
ScenarioLabel(r) == <<"Remove all ", r, " events">>

\* The payload of one driver from its row of the original and of the
\* adjusted results; ValueError when one of them has no row of the driver.
build_what_if_payload(driver, scenario_label, original_results, adjusted_results) ==
    IF \/ driver \notin VehiclesOf(original_results)
       \/ driver \notin VehiclesOf(adjusted_results)
    THEN [status |-> "ValueError"]
    ELSE LET o == Head(SelectSeq(original_results, LAMBDA r : r.vehicle_id = driver))
             a == Head(SelectSeq(adjusted_results, LAMBDA r : r.vehicle_id = driver))
             gain == o.real_total_time - a.adj_total_time
             orig_pos == OrigPos(o, a)
             adj_pos == a.adj_position
         IN  [status |-> "ok",
              scenario |-> scenario_label,
              driver_id |-> driver,
              original_time_seconds |-> o.real_total_time,
              adjusted_time_seconds |-> a.adj_total_time,
              time_gain_seconds |-> gain,
              time_gain_percent |->
                 IF o.real_total_time > 0 THEN Rat(100 * gain, o.real_total_time)
                 ELSE Rat(0, 1),
              original_position |-> orig_pos,
              adjusted_position |-> adj_pos,
              position_change |-> PosChange(orig_pos, adj_pos),
              result_improvement |-> ResultImprovement(PosChange(orig_pos, adj_pos))]

\* The one-row frame of the driver's lap total the payload is built from.
OriginalFrame(lt, vid) ==
    <<[vehicle_id |-> vid,
       real_total_time |-> SumField(lt.rows, vid, "lap_time_seconds"),
       adj_position |-> 0]>>

\* The loop over the affected vehicles; a vehicle whose payload raises is
\* skipped, and so is every vehicle when the adjusted frame has no columns.
PayloadLoop(lt, rm, r, adjusted) ==
    IF adjusted.status # "ok" THEN <<>>
    ELSE LET built == [v \in VehiclesOf(rm.rows) |->
                          build_what_if_payload(v, ScenarioLabel(r),
                              OriginalFrame(lt, v),
                              SelectSeq(adjusted.rows, LAMBDA x : x.vehicle_id = v))]
         IN  [v \in {w \in VehiclesOf(rm.rows) : built[w].status = "ok"} |-> built[v]]

NoPayloads == [status |-> "none", payloads |-> <<>>]

\* Every result the removal by role can produce.
RoleOutcomes(lt, ed, rs, r) ==
    LET rm == FilterEventsForRemoval(ed, "None", "None", r)
    IN  IF rm.rows = <<>> THEN {[status |-> "ok", payloads |-> <<>>]}
        ELSE {IF adjusted.status = "ValueError"
              THEN [status |-> "ValueError", payloads |-> <<>>]
              ELSE [status |-> "ok", payloads |-> PayloadLoop(lt, rm, r, adjusted)] :
                 adjusted \in SimulateOutcomes(lt, ed.rows,
                                  [kind |-> "event_id", rows |-> rm.rows], rs)}

simulate_event_removal_by_role ==
    /\ role_pc = "ready"
    /\ payloads' \in RoleOutcomes(lap_times, role_events, results_df, role_arg)
    /\ role_pc' = "done"
    /\ UNCHANGED <<role_events, role_arg>>
    /\ UNCHANGED <<simVars, cmpVars, detVars, factsVars, filterVars>>

----------------------------------------------------------------------------
(* Specifications                                                           *)

CmpIdle ==
    /\ scenarios = <<>>
    /\ driver_id = "A"
    /\ comparison = NoComparison
    /\ cmp_pc = "idle"

SimIdle ==
    /\ lap_times = [has_cols |-> FALSE, rows |-> <<>>]
    /\ event_detection = <<>>
    /\ events_to_remove = [kind |-> "None", rows |-> <<>>]
    /\ results_df = NoResults
    /\ result = NotRun
    /\ pc = "idle"

DetIdle ==
    /\ per_lap = <<>>
    /\ telemetry = {}
    /\ det_result = NoDetection
    /\ det_pc = "idle"

FactsIdle ==
    /\ events = <<>>
    /\ race_key_events = <<>>
    /\ facts_pc = "idle"

FilterIdle ==
    /\ events_df = NoEvents
    /\ filter_args = [event_type |-> "None", vehicle_id |-> "None", role |-> "None"]
    /\ filtered = NoEvents
    /\ filter_pc = "idle"

RoleIdle ==
    /\ role_events = NoEvents
    /\ role_arg = "None"
    /\ payloads = NoPayloads
    /\ role_pc = "idle"

\* The simulator on every input of the bounded sets.
Init ==
    /\ lap_times \in LapTables
    /\ event_detection \in EventTables
    /\ events_to_remove \in RemovalFilters
    /\ results_df \in ResultsChoices
    /\ result = NotRun
    /\ pc = "ready"
    /\ CmpIdle
    /\ DetIdle /\ FactsIdle /\ FilterIdle /\ RoleIdle

Next == simulate_no_events

Spec == Init /\ [][Next]_vars

\* The comparator on scenarios simulated one after the other.
InitCompare ==
    /\ SimIdle
    /\ scenarios = <<>>
    /\ driver_id \in Vehicles
    /\ comparison = NoComparison
    /\ cmp_pc = "build"
    /\ DetIdle /\ FactsIdle /\ FilterIdle /\ RoleIdle

NextCompare == AddScenario \/ compare_scenarios

SpecCompare == InitCompare /\ [][NextCompare]_vars

\* The lap-level detector on every lap table of the bounded sets, without
\* telemetry files.
InitLapDetect ==
    /\ SimIdle /\ CmpIdle /\ FactsIdle /\ FilterIdle /\ RoleIdle
    /\ per_lap \in PerLapTables
    /\ telemetry = {}
    /\ det_result = NoDetection
    /\ det_pc = "ready"

NextLapDetect == detect

SpecLapDetect == InitLapDetect /\ [][NextLapDetect]_vars

\* The detector with one telemetry file, of lap 2 of vehicle A.
InitSampleDetect ==
    /\ SimIdle /\ CmpIdle /\ FactsIdle /\ FilterIdle /\ RoleIdle
    /\ \E s \in SeqsUpTo(SampleKinds, MaxSamples), reversed \in BOOLEAN :
          /\ telemetry = {[vehicle_id |-> "A", lap |-> 2,
                           rows |-> FileRows(s, reversed)]}
          /\ per_lap \in SampleLapTables(Len(s))
    /\ det_result = NoDetection
    /\ det_pc = "ready"

NextSampleDetect == detect

SpecSampleDetect == InitSampleDetect /\ [][NextSampleDetect]_vars

\* The lap-level detector on longer lap histories.
InitPaceWindow ==
    /\ SimIdle /\ CmpIdle /\ FactsIdle /\ FilterIdle /\ RoleIdle
    /\ per_lap \in WindowTables
    /\ telemetry = {}
    /\ det_result = NoDetection
    /\ det_pc = "ready"

NextPaceWindow == detect

SpecPaceWindow == InitPaceWindow /\ [][NextPaceWindow]_vars

\* The catalog on every event list of the bounded sets.
InitFacts ==
    /\ SimIdle /\ CmpIdle /\ DetIdle /\ FilterIdle /\ RoleIdle
    /\ events \in EventLists
    /\ race_key_events = <<>>
    /\ facts_pc = "ready"

NextFacts == compose_race_facts

SpecFacts == InitFacts /\ [][NextFacts]_vars

\* The removal filter on every event table and every combination of
\* criteria of the bounded sets.
InitFilter ==
    /\ SimIdle /\ CmpIdle /\ DetIdle /\ FactsIdle /\ RoleIdle
    /\ events_df \in FilterEventTables
    /\ filter_args \in FilterArgs
    /\ filtered = NoEvents
    /\ filter_pc = "ready"

NextFilter == filter_events_for_removal

SpecFilter == InitFilter /\ [][NextFilter]_vars

\* The removal by role on every event table of the bounded sets.
InitByRole ==
    /\ CmpIdle /\ DetIdle /\ FactsIdle /\ FilterIdle
    /\ lap_times \in RoleLapChoices
    /\ results_df \in ResultsChoices
    /\ event_detection = <<>>
    /\ events_to_remove = [kind |-> "None", rows |-> <<>>]
    /\ result = NotRun
    /\ pc = "idle"
    /\ role_events \in RoleEventTables
    /\ role_arg \in Roles
    /\ payloads = NoPayloads
    /\ role_pc = "ready"

NextByRole == simulate_event_removal_by_role

SpecByRole == InitByRole /\ [][NextByRole]_vars

----------------------------------------------------------------------------
(* What the claims speak of, computed from the inputs alone.                *)

RECURSIVE SumOver(_, _)
\* Sum of f[i] over the indices i of S, each index once.
SumOver(f, S) ==
    IF S = {} THEN 0
    ELSE LET i == CHOOSE k \in S : TRUE IN f[i] + SumOver(f, S \ {i})

Done == pc = "done"
Ok == pc = "done" /\ result.status = "ok"

LapVehicles == VehiclesOf(lap_times.rows)
AbsentVehicles == Vehicles \ LapVehicles

\* Sum of lap_time_seconds over the laps of v.
LapTotal(v) ==
    SumOver([i \in DOMAIN lap_times.rows |-> lap_times.rows[i].lap_time_seconds],
            {i \in DOMAIN lap_times.rows : lap_times.rows[i].vehicle_id = v})

\* The filter row f names the event e.
Names(f, e) ==
    IF events_to_remove.kind = "event_id" THEN f.event_id = e.event_id
    ELSE f.vehicle_id = e.vehicle_id

\* The event at index i is selected by the removal filter.
Selected(i) ==
    \/ events_to_remove.kind = "None"
    \/ \E k \in DOMAIN events_to_remove.rows :
          Names(events_to_remove.rows[k], event_detection[i])

\* Sum of time_loss_estimate over the selected events of v, each once.
RemovedLoss(v) ==
    SumOver([i \in DOMAIN event_detection |-> event_detection[i].time_loss_estimate],
            {i \in DOMAIN event_detection :
                event_detection[i].vehicle_id = v /\ Selected(i)})

\* A filter that selects no event.
EmptyRemovalFilter ==
    events_to_remove.kind # "None" /\ events_to_remove.rows = <<>>

RowsOf(v) == {i \in DOMAIN result.rows : result.rows[i].vehicle_id = v}

\* The positions the official results give v.
OfficialPositions(v) ==
    IF results_df.given /\ results_df.has_cols
    THEN {results_df.rows[i].POSITION :
            i \in {k \in DOMAIN results_df.rows : results_df.rows[k].VEHICLE = v}}
    ELSE {}

\* Index of the first lap row of v.
FirstLapRow(v) ==
    CHOOSE i \in DOMAIN lap_times.rows :
        /\ lap_times.rows[i].vehicle_id = v
        /\ \A j \in 1..(i - 1) : lap_times.rows[j].vehicle_id # v

----------------------------------------------------------------------------
(* Claims about simulate_no_events, checked under Spec.                     *)

\* C1: run with an empty removal filter, every vehicle with lap times has a
\* row with total_event_loss = 0 and adj_total_time = real_total_time.
C1_IdempotentTimes ==
    (Done /\ lap_times.has_cols /\ EmptyRemovalFilter) =>
        \A v \in LapVehicles :
            \E i \in RowsOf(v) :
                /\ result.rows[i].total_event_loss = 0
                /\ result.rows[i].adj_total_time = LapTotal(v)
                /\ result.rows[i].real_total_time = LapTotal(v)

\* C2: run with an empty removal filter and official results, every vehicle
\* whose real position is known has position_change = 0.
C2_IdempotentPositions ==
    (Done /\ lap_times.has_cols /\ EmptyRemovalFilter /\ results_df.given) =>
        \A v \in LapVehicles :
            OfficialPositions(v) # {} =>
                \E i \in RowsOf(v) : result.rows[i].position_change = Num(0)

\* C3: in every result, adj_total_time(v) is the sum of v's lap times minus
\* the sum of time_loss_estimate over v's selected events, each counted once.
C3_AdjustedTime ==
    Ok => \A i \in DOMAIN result.rows :
            LET v == result.rows[i].vehicle_id
            IN  result.rows[i].adj_total_time = LapTotal(v) - RemovedLoss(v)

\* C4: for any events and any removal filter the result has exactly one row
\* for every vehicle with a lap-time total, and a vehicle with no selected
\* event has total_event_loss = 0.
C4_OneRowPerVehicle ==
    (Done /\ lap_times.has_cols) =>
        /\ \A v \in LapVehicles : Cardinality(RowsOf(v)) = 1
        /\ \A i \in DOMAIN result.rows : result.rows[i].vehicle_id \in LapVehicles
        /\ \A i \in DOMAIN result.rows :
              RemovedLoss(result.rows[i].vehicle_id) = 0
                  => result.rows[i].total_event_loss = 0

\* C5: in every result a strictly smaller adj_total_time gives a strictly
\* smaller adj_position, and the adj_position values are exactly 1..N.
C5_MonotonicRanking ==
    Ok =>
        /\ \A i, j \in DOMAIN result.rows :
              result.rows[i].adj_total_time < result.rows[j].adj_total_time
                  => result.rows[i].adj_position < result.rows[j].adj_position
        /\ {result.rows[i].adj_position : i \in DOMAIN result.rows}
              = 1..Cardinality(LapVehicles)
        /\ \A i, j \in DOMAIN result.rows :
              i # j => result.rows[i].adj_position # result.rows[j].adj_position

\* C5 witness: two vehicles with different adjusted times, the later
\* vehicle id ranked first.
C5_Witness ==
    /\ Ok
    /\ Len(result.rows) = 2
    /\ result.rows[1].vehicle_id = "B"
    /\ result.rows[1].adj_total_time < result.rows[2].adj_total_time

\* C6: vehicles with equal adj_total_time are ranked in the order of their
\* first appearance in the lap-time input.
C6_StableTieBreak ==
    Ok => \A i, j \in DOMAIN result.rows :
            (/\ result.rows[i].adj_total_time = result.rows[j].adj_total_time
             /\ FirstLapRow(result.rows[i].vehicle_id)
                  < FirstLapRow(result.rows[j].vehicle_id))
                => result.rows[i].adj_position < result.rows[j].adj_position

NamesAbsent(f) ==
    IF events_to_remove.kind = "columns" THEN f.vehicle_id \in AbsentVehicles
    ELSE /\ \E i \in DOMAIN event_detection : Names(f, event_detection[i])
         /\ \A i \in DOMAIN event_detection :
               Names(f, event_detection[i])
                   => event_detection[i].vehicle_id \in AbsentVehicles

\* The removal filter without the rows that name absent vehicles.
FilterWithoutAbsent ==
    [kind |-> events_to_remove.kind,
     rows |-> SelectSeq(events_to_remove.rows, LAMBDA f : ~NamesAbsent(f))]

\* C8: a removal filter naming events of a vehicle absent from the lap
\* totals raises no error, adds no row for that vehicle, and gives every
\* other vehicle the result it has without those filter rows.
C8_UnknownVehicleInFilter ==
    (/\ Done /\ lap_times.has_cols /\ events_to_remove.kind # "None"
     /\ \E k \in DOMAIN events_to_remove.rows :
           NamesAbsent(events_to_remove.rows[k])) =>
        /\ result.status = "ok"
        /\ \A v \in AbsentVehicles : RowsOf(v) = {}
        /\ result \in SimulateOutcomes(lap_times, event_detection,
                                       FilterWithoutAbsent, results_df)

\* C9: with no lap-time totals at all the call returns an empty result and
\* raises nothing, for any events, removal filter and official results.
C9_EmptyInput ==
    (Done /\ (~lap_times.has_cols \/ lap_times.rows = <<>>)) =>
        result.status \in {"ok", "empty"} /\ result.rows = <<>>

----------------------------------------------------------------------------
(* Claims about compare_scenarios, checked under SpecCompare.               *)

CompareDone == cmp_pc = "done"

\* The rows of the driver in the k-th scenario's simulator output.
DriverRows(k) ==
    {i \in DOMAIN scenarios[k].results_df.rows :
        scenarios[k].results_df.rows[i].vehicle_id = driver_id}

\* C10: a scenario whose output has no row of the target vehicle is omitted
\* and nothing is raised; a scenario that has one gets an entry carrying
\* exactly that row's adj_total_time, adj_position and total_event_loss,
\* whatever the other scenarios hold.
C10_PureProjection ==
    CompareDone =>
        /\ comparison.status = "ok"
        /\ DOMAIN comparison.scenarios
              \subseteq {scenarios[k].label : k \in DOMAIN scenarios}
        /\ \A k \in DOMAIN scenarios :
              LET name == scenarios[k].label
              IN  IF DriverRows(k) = {}
                  THEN name \notin DOMAIN comparison.scenarios
                  ELSE /\ name \in DOMAIN comparison.scenarios
                       /\ \E i \in DriverRows(k) :
                            LET row == scenarios[k].results_df.rows[i]
                                e == comparison.scenarios[name]
                            IN  /\ e.total_time = row.adj_total_time
                                /\ e.position = row.adj_position
                                /\ e.time_gain = row.total_event_loss

\* C10 witness: of two scenarios one ranks the target vehicle second and
\* has an entry, the other has no row of it and is omitted.
C10_Witness ==
    /\ CompareDone
    /\ Len(scenarios) = 2
    /\ \E k \in DOMAIN scenarios :
          /\ DriverRows(k) # {}
          /\ scenarios[k].label \in DOMAIN comparison.scenarios
          /\ comparison.scenarios[scenarios[k].label].position = 2
          /\ comparison.scenarios[scenarios[k].label].time_gain > 0
    /\ \E k \in DOMAIN scenarios :
          /\ DriverRows(k) = {}
          /\ scenarios[k].label \notin DOMAIN comparison.scenarios


----------------------------------------------------------------------------
(* Claims about the event detector, checked under SpecLapDetect and          *)
(* SpecSampleDetect.                                                         *)

Detected == det_pc = "done" /\ det_result.status = "ok"
DetEvents == det_result.events
EventsOfType(type) == {i \in DOMAIN DetEvents : DetEvents[i].event_type = type}
LapLevelTypes == {"pace_collapse", "degradation_phase"}
SampleLevelTypes == {"lockup", "near_spin", "understeer", "missed_shift"}

\* The lap records of vehicle v in the input, and those before lap n.
LapsOf(v) == {i \in DOMAIN per_lap : per_lap[i].vehicle_id = v}
PriorLaps(v, n) == {i \in LapsOf(v) : per_lap[i].lap # NaN /\ per_lap[i].lap[1] < n}

\* C11: every event the detector emits has a severity between 0 and 1 and a
\* time loss estimate of at least 0, both of them numbers.
C11_SeverityAndLossBounds ==
    Detected =>
        \A i \in DOMAIN DetEvents :
            LET e == DetEvents[i]
            IN  /\ e.severity_score.den > 0
                /\ 0 <= e.severity_score.num
                /\ e.severity_score.num <= e.severity_score.den
                /\ e.time_loss_estimate.den > 0
                /\ e.time_loss_estimate.num >= 0

\* A run that emitted a lap-level event and a sample-level event, one of
\* them with its severity at the cap.
C11_Witness ==
    /\ Detected
    /\ \E i \in DOMAIN DetEvents : DetEvents[i].event_type \in LapLevelTypes
    /\ \E i \in DOMAIN DetEvents : DetEvents[i].event_type \in SampleLevelTypes
    /\ \E i \in DOMAIN DetEvents :
          DetEvents[i].severity_score.num = DetEvents[i].severity_score.den

\* C12 as stated: a degradation_phase event is emitted only for a vehicle
\* that has at least 3 laps before the lap of the event.
C12_ThreePriorLaps ==
    Detected =>
        \A i \in EventsOfType("degradation_phase") :
            Cardinality(PriorLaps(DetEvents[i].vehicle_id, DetEvents[i].lap)) >= 3

\* C12 amended: for every vehicle with fewer than 3 laps in its lap history
\* the detector never emits a degradation_phase event.
C12_ThreeLapHistory ==
    Detected =>
        \A i \in EventsOfType("degradation_phase") :
            Cardinality(LapsOf(DetEvents[i].vehicle_id)) >= 3

\* A degradation_phase event of a vehicle with exactly 3 laps, 2 of them
\* before the lap of the event.
C12_Witness ==
    /\ Detected
    /\ \E i \in EventsOfType("degradation_phase") :
          /\ Cardinality(LapsOf(DetEvents[i].vehicle_id)) = 3
          /\ Cardinality(PriorLaps(DetEvents[i].vehicle_id, DetEvents[i].lap)) = 2

\* C14: the detector never raises, whatever value is missing from a lap or
\* sample record.
C14_NeverRaises == det_pc = "done" => det_result.status = "ok"

\* C15: no two events of the detector's combined output have the same
\* event_id.
C15_UniqueEventIds ==
    Detected =>
        \A i, j \in DOMAIN DetEvents :
            i # j => DetEvents[i].event_id # DetEvents[j].event_id

\* The rules in the order the claim gives them, and the condition of each.
RuleOrder == <<"lockup", "near_spin", "understeer", "missed_shift">>
RuleHolds(type, df, i) ==
    CASE type = "lockup" -> Lockup(df, i)
      [] type = "near_spin" -> NearSpin(df, i)
      [] type = "understeer" -> Understeer(df, i)
      [] type = "missed_shift" -> MissedShift(df, i)

\* The samples of the telemetry file of a detected lap, in time order, and
\* the sample-level events emitted for lap record k at sample i.
DetectedFiles ==
    {f \in telemetry :
        \E k \in DOMAIN per_lap :
            per_lap[k].vehicle_id = f.vehicle_id /\ per_lap[k].lap = Num(f.lap)}
SampleEventsAt(f, i) ==
    {k \in DOMAIN DetEvents :
        /\ DetEvents[k].event_type \in SampleLevelTypes
        /\ DetEvents[k].vehicle_id = f.vehicle_id
        /\ DetEvents[k].lap = f.lap
        /\ DetEvents[k].timestamp = SortIndex(f.rows)[i].ts}

\* C20: a sample gets at most one sample-level event, and its type is the
\* first rule, in the order lockup, near_spin, understeer, missed_shift,
\* whose condition holds at the sample.
C20_FirstMatchWins ==
    Detected =>
        \A f \in DetectedFiles :
            LET df == SortIndex(f.rows)
            IN  \A i \in 4..Len(df) :
                    LET evs == SampleEventsAt(f, i)
                        holding == {r \in DOMAIN RuleOrder :
                                       RuleHolds(RuleOrder[r], df, i)}
                    IN  /\ Cardinality(evs) <= 1
                        /\ holding # {} => evs # {}
                        /\ \A k \in evs :
                              \E r \in holding :
                                  /\ DetEvents[k].event_type = RuleOrder[r]
                                  /\ \A q \in holding : r <= q

\* A sample where the lockup and the missed_shift conditions both hold and
\* the event emitted is the lockup.
C20_Witness ==
    /\ Detected
    /\ \E f \in DetectedFiles :
          \E i \in 4..Len(f.rows) :
              /\ Lockup(SortIndex(f.rows), i)
              /\ MissedShift(SortIndex(f.rows), i)
              /\ \E k \in SampleEventsAt(f, i) : DetEvents[k].event_type = "lockup"

----------------------------------------------------------------------------
(* Claims about the key events of the catalog, checked under SpecFacts.     *)

FactsDone == facts_pc = "done"

\* The input event an entry of race_key_events was made from.
Listed(k) == events[race_key_events[k].lap]
ListedLaps == {race_key_events[k].lap : k \in DOMAIN race_key_events}

\* Event a ranks strictly before event b in the descending order on
\* (severity, time_loss_estimate), and the two tie.
RanksBefore(a, b) ==
    \/ a.severity_score > b.severity_score
    \/ /\ a.severity_score = b.severity_score
       /\ a.time_loss_estimate > b.time_loss_estimate
Tied(a, b) ==
    /\ a.severity_score = b.severity_score
    /\ a.time_loss_estimate = b.time_loss_estimate

\* The key events are in ranking order and no event left out ranks before
\* one of them.
FirstInRanking ==
    /\ \A j, k \in DOMAIN race_key_events :
          j < k => ~RanksBefore(Listed(k), Listed(j))
    /\ \A k \in DOMAIN race_key_events :
          \A i \in DOMAIN events :
              i \notin ListedLaps => ~RanksBefore(events[i], Listed(k))

\* C16: of n events the catalog selects min(n, 6) key events, the first of
\* the descending order on (severity, time_loss_estimate).
C16_SixKeyEvents ==
    FactsDone =>
        /\ Len(race_key_events) = Min(Len(events), 6)
        /\ FirstInRanking

\* C17: with at least one event, the first-ranked event and no other is the
\* race_turning_point, the events ranked 2nd to 4th are major_mistake, and
\* no other event carries a role.
C17_Roles ==
    (FactsDone /\ events # <<>>) =>
        /\ Len(race_key_events) = Min(Len(events), 4)
        /\ FirstInRanking
        /\ \A k \in DOMAIN race_key_events :
              /\ race_key_events[k].severity = Listed(k).severity_score
              /\ race_key_events[k].time_loss = Listed(k).time_loss_estimate
              /\ race_key_events[k].role =
                    IF k = 1 THEN "race_turning_point" ELSE "major_mistake"
        /\ \A j, k \in DOMAIN race_key_events :
              j # k => race_key_events[j].lap # race_key_events[k].lap

\* More events than roles: five events, four of them labelled.
C17_Witness ==
    /\ FactsDone
    /\ Len(events) = 5
    /\ Len(race_key_events) = 4
    /\ race_key_events[1].role = "race_turning_point"
    /\ race_key_events[4].role = "major_mistake"
    /\ race_key_events[1].lap # 1

\* C18: events that tie on severity and time_loss_estimate keep their
\* detection order in the key-event list.
C18_StableRanking ==
    FactsDone =>
        \A k \in DOMAIN race_key_events :
            \A i \in DOMAIN events :
                (i < race_key_events[k].lap /\ Tied(events[i], Listed(k))) =>
                    \E j \in 1..(k - 1) : race_key_events[j].lap = i

\* Two tied events, the later one listed after the earlier one, and a third
\* tied event cut off the list.
C18_Witness ==
    /\ FactsDone
    /\ \E j, k \in DOMAIN race_key_events :
          /\ j < k
          /\ Tied(Listed(j), Listed(k))
          /\ \E i \in DOMAIN events :
                i \notin ListedLaps /\ Tied(events[i], Listed(k))

----------------------------------------------------------------------------
(* Claims about filter_events_for_removal, checked under SpecFilter.        *)

FilterDone == filter_pc = "done"

\* Event r of the input matches every criterion that was supplied; an event
\* of a table without the role column has no role.
MatchesCriteria(r) ==
    /\ (filter_args.vehicle_id # "None" => r.vehicle_id = filter_args.vehicle_id)
    /\ (filter_args.event_type # "None" => r.event_type = filter_args.event_type)
    /\ (filter_args.role # "None" =>
            (events_df.has_role /\ r.role = filter_args.role))

\* C19: the filter returns exactly the events that match every criterion
\* supplied, in their original order; when a role is given every returned
\* event has that role, also in a table that was never labelled with roles.
C19_ExactFilter ==
    FilterDone => filtered.rows = SelectSeq(events_df.rows, MatchesCriteria)

----------------------------------------------------------------------------
(* Claims about the conditions of the sample-level rules, checked under     *)
(* SpecSampleDetect.                                                        *)

\* The rules whose condition holds at sample i of the time-ordered file f.
RulesHolding(f, i) ==
    {r \in DOMAIN RuleOrder : RuleHolds(RuleOrder[r], SortIndex(f.rows), i)}

\* C21 as stated: at no sample do the conditions of two different rules
\* among lockup, near_spin, understeer and missed_shift hold together.
C21_MutuallyExclusive ==
    Detected =>
        \A f \in DetectedFiles :
            \A i \in DOMAIN f.rows : Cardinality(RulesHolding(f, i)) <= 1

\* C21 amended: at no sample do the conditions of two different rules among
\* lockup, near_spin and understeer hold together (their conditions on the
\* lateral acceleration exclude each other); missed_shift may hold together
\* with each of them.
C21_LateralRulesExclusive ==
    Detected =>
        \A f \in DetectedFiles :
            \A i \in DOMAIN f.rows :
                Cardinality(RulesHolding(f, i) \ {4}) <= 1

\* A detected file with a sample where missed_shift holds together with
\* exactly one of the other three rules.
C21_Witness ==
    /\ Detected
    /\ \E f \in DetectedFiles :
          \E i \in DOMAIN f.rows :
              4 \in RulesHolding(f, i) /\ Cardinality(RulesHolding(f, i)) = 2

\* The row of file f stamped t, and the changes the lockup rule speaks of;
\* a change is known when both of its values are numbers.
RowAt(f, t) == CHOOSE r \in {f.rows[k] : k \in DOMAIN f.rows} : r.ts = t
Known(f, t, u, col) == RowAt(f, t)[col] # NaN /\ RowAt(f, u)[col] # NaN
\* The value of col at t minus the value at u.
Change(f, t, u, col) == RowAt(f, t)[col][1] - RowAt(f, u)[col][1]
LockupEventsAt(f, t) ==
    {k \in DOMAIN DetEvents :
        /\ DetEvents[k].event_type = "lockup"
        /\ DetEvents[k].vehicle_id = f.vehicle_id
        /\ DetEvents[k].lap = f.lap
        /\ DetEvents[k].timestamp = t}
BrakeRoseSpeedDropped(f, t) ==
    /\ Known(f, t, t - 2, "pbrake_f") /\ Change(f, t, t - 2, "pbrake_f") > 10
    /\ Known(f, t, t - 3, "speed") /\ Change(f, t - 3, t, "speed") > 12
    /\ Known(f, t, t - 3, "accy_can")

\* C22 as stated: a lockup event is emitted at sample t exactly when the
\* front brake pressure rose by more than 10 from t-2 to t, the speed dropped
\* by more than 6 from t-3 to t and the lateral G rose by more than 0.3 from
\* t-3 to t; its time loss estimate is the speed loss divided by 9.
C22_LockupLateralRise ==
    Detected =>
        \A f \in DetectedFiles :
            \A t \in 4..Len(f.rows) :
                /\ LockupEventsAt(f, t) # {} <=>
                      (BrakeRoseSpeedDropped(f, t)
                       /\ Change(f, t, t - 3, "accy_can") > 3)
                /\ \A k \in LockupEventsAt(f, t) :
                      DetEvents[k].time_loss_estimate
                          = Rat(Change(f, t - 3, t, "speed"), 18)

\* C22 amended: ... and the lateral G dropped by more than 0.3 from t-3 to
\* t; its time loss estimate is the speed loss divided by 9.
C22_LockupLateralDrop ==
    Detected =>
        \A f \in DetectedFiles :
            \A t \in 4..Len(f.rows) :
                /\ LockupEventsAt(f, t) # {} <=>
                      (BrakeRoseSpeedDropped(f, t)
                       /\ Change(f, t - 3, t, "accy_can") > 3)
                /\ \A k \in LockupEventsAt(f, t) :
                      DetEvents[k].time_loss_estimate
                          = Rat(Change(f, t - 3, t, "speed"), 18)

\* A lockup event at the fourth sample of a file stored in descending order
\* of timestamp: speed loss 10, time loss 10/9.
C22_Witness ==
    /\ Detected
    /\ \E f \in DetectedFiles :
          /\ Len(f.rows) = 4
          /\ f.rows[1].ts = 4
          /\ \E k \in LockupEventsAt(f, 4) :
                DetEvents[k].time_loss_estimate = Rat(20, 18)

----------------------------------------------------------------------------
(* Claims about the lap-level rules, checked under SpecLapDetect and        *)
(* SpecPaceWindow.                                                          *)

\* C23 as stated: a pace_collapse event is emitted only for a lap with at
\* least 3 prior laps of its vehicle.
C23_ThreePriorLaps ==
    Detected =>
        \A i \in EventsOfType("pace_collapse") :
            Cardinality(PriorLaps(DetEvents[i].vehicle_id, DetEvents[i].lap)) >= 3

\* C23 amended: a pace_collapse event is emitted for a lap only when the
\* vehicle has at least 1 prior lap; none is emitted for a vehicle's first
\* lap.
C23_OnePriorLap ==
    Detected =>
        \A i \in EventsOfType("pace_collapse") :
            Cardinality(PriorLaps(DetEvents[i].vehicle_id, DetEvents[i].lap)) >= 1

\* A pace_collapse event of a vehicle's second lap.
C23_Witness ==
    /\ Detected
    /\ \E i \in EventsOfType("pace_collapse") :
          Cardinality(PriorLaps(DetEvents[i].vehicle_id, DetEvents[i].lap)) = 1

RECURSIVE SumRows(_, _)
\* Sum of the field over a set of row indices of per_lap.
SumRows(S, field) ==
    IF S = {} THEN 0
    ELSE LET i == CHOOSE k \in S : TRUE
         IN  per_lap[i][field][1] + SumRows(S \ {i}, field)

\* The up to 3 laps of the same vehicle that immediately precede row r.
Preceding(r) ==
    {i \in PriorLaps(per_lap[r].vehicle_id, per_lap[r].lap[1]) :
        Cardinality({j \in PriorLaps(per_lap[r].vehicle_id, per_lap[r].lap[1]) :
                        per_lap[j].lap[1] > per_lap[i].lap[1]}) < 3}

\* Row r is slower than 1.015 times the mean lap time of the laps W and
\* its peak G are more than 0.2 and 0.15 below their means over W.
CollapsedAgainst(r, W) ==
    LET n == Cardinality(W)
    IN  /\ n > 0
        /\ 1000 * n * per_lap[r].lap_time_seconds[1]
              > 1015 * SumRows(W, "lap_time_seconds")
        /\ n * (per_lap[r].peak_lat_G[1] + 4) < SumRows(W, "peak_lat_G")
        /\ n * (per_lap[r].peak_long_G[1] + 3) < SumRows(W, "peak_long_G")

PaceEventsOf(r) ==
    {k \in EventsOfType("pace_collapse") :
        /\ DetEvents[k].vehicle_id = per_lap[r].vehicle_id
        /\ DetEvents[k].lap = per_lap[r].lap[1]}

\* The fractions a and b are the same number.
SameValue(a, b) == a.num * b.den = b.num * a.den

InOrder(i, j) ==
    LET a == DetEvents[i]
        b == DetEvents[j]
    IN  \/ VehicleRank(a.vehicle_id) < VehicleRank(b.vehicle_id)
        \/ /\ a.vehicle_id = b.vehicle_id
           /\ \/ a.lap < b.lap
              \/ a.lap = b.lap /\ a.timestamp <= b.timestamp

\* C25: the lap-level events come before the sample-level events, and the
\* events of each pass are in ascending order of vehicle, then time, whatever
\* the order of the input rows and the mix of pace_collapse and
\* degradation_phase events.
C25_OrderedOutput ==
    Detected =>
        \A i, j \in DOMAIN DetEvents :
            i < j =>
                /\ DetEvents[j].event_type \in LapLevelTypes
                      => DetEvents[i].event_type \in LapLevelTypes
                /\ (DetEvents[i].event_type \in LapLevelTypes)
                      = (DetEvents[j].event_type \in LapLevelTypes)
                      => InOrder(i, j)

\* The run of the detector on the laps and files of vehicle v alone.
PartitionRun(v) ==
    DetectEvents(SelectSeq(per_lap, LAMBDA r : r.vehicle_id = v),
                 {f \in telemetry : f.vehicle_id = v})

EventSet(es) == {es[i] : i \in DOMAIN es}

\* C26: the events of a vehicle depend on its own laps and samples only:
\* the runs of the detector on the partitions of the input by vehicle give,
\* together, the same set of events as the run on the whole input, and one
\* of them raises exactly when the run on the whole input does.
C26_PerVehicleIndependence ==
    det_pc = "done" =>
        /\ det_result.status = "ok"
              <=> \A v \in VehiclesOf(per_lap) : PartitionRun(v).status = "ok"
        /\ det_result.status = "ok"
              => EventSet(DetEvents)
                 = UNION {EventSet(PartitionRun(v).events) : v \in VehiclesOf(per_lap)}

\* A run over the laps of two vehicles with an event of each, one of them
\* a degradation_phase fitted to the laps of its vehicle.
C26_Witness ==
    /\ Detected
    /\ \E i \in EventsOfType("degradation_phase") :
       \E j \in EventsOfType("pace_collapse") :
          DetEvents[i].vehicle_id # DetEvents[j].vehicle_id

\* The run of the detector on the laps of vehicle v up to lap k and on the
\* telemetry files of these laps.
PrefixRun(v, k) ==
    DetectEvents(SelectSeq(per_lap, LAMBDA r : r.vehicle_id = v /\ r.lap[1] <= k),
                 {f \in telemetry : f.vehicle_id = v /\ f.lap <= k})

\* C27: the run of the detector on a prefix of a vehicle's laps yields
\* exactly the events of the full run that lie inside the prefix: no event
\* of the prefix is changed, dropped or added when later laps are appended.
C27_PrefixCausality ==
    Detected =>
        \A r \in DOMAIN per_lap :
            LET v == per_lap[r].vehicle_id
                k == per_lap[r].lap[1]
            IN  EventSet(PrefixRun(v, k).events)
                = {e \in EventSet(DetEvents) : e.vehicle_id = v /\ e.lap <= k}

----------------------------------------------------------------------------
(* Claims about the simulator without a filter and by role                  *)

\* The removal filter with one row for every event: its event_id.
FilterListingEveryEvent ==
    [kind |-> "event_id",
     rows |-> [i \in DOMAIN event_detection |->
                  [event_id |-> event_detection[i].event_id]]]

\* Sum of time_loss_estimate over all the events of v.
FullLoss(v) ==
    SumOver([i \in DOMAIN event_detection |-> event_detection[i].time_loss_estimate],
            {i \in DOMAIN event_detection : event_detection[i].vehicle_id = v})

\* C28: without a removal filter every event is removed: the event loss of
\* a vehicle is the sum of the time losses of all its events, and the
\* outcome is the one of a removal filter that lists every event.
C28_NoFilterRemovesAll ==
    (Done /\ events_to_remove.kind = "None") =>
        /\ Ok => \A i \in DOMAIN result.rows :
                    result.rows[i].total_event_loss
                    = FullLoss(result.rows[i].vehicle_id)
        /\ result \in SimulateOutcomes(lap_times, event_detection,
                                       FilterListingEveryEvent, results_df)

\* The removal filter of the run's kind that selects no event.
NothingRemoved == [kind |-> events_to_remove.kind, rows |-> <<>>]

\* The run removed events, all of them of vehicle v, and v has lap times.
RemovedOnlyEventsOf(v) ==
    /\ Ok /\ events_to_remove.kind # "None"
    /\ v \in LapVehicles
    /\ EventsKept(event_detection, events_to_remove) # <<>>
    /\ VehiclesOf(EventsKept(event_detection, events_to_remove)) = {v}

\* C29: removing events of one vehicle only never worsens that vehicle:
\* its adjusted position is at most the one it has under the empty removal
\* filter, and its adjusted total time at most its real total time.
C29_RemovalNeverWorsens ==
    \A v \in Vehicles :
        RemovedOnlyEventsOf(v) =>
            \A i \in RowsOf(v) :
                /\ result.rows[i].adj_total_time <= result.rows[i].real_total_time
                /\ \A base \in SimulateOutcomes(lap_times, event_detection,
                                                 NothingRemoved, results_df) :
                      /\ base.status = "ok"
                      /\ \A j \in DOMAIN base.rows :
                            base.rows[j].vehicle_id = v
                                => result.rows[i].adj_position
                                   <= base.rows[j].adj_position

RoleDone == role_pc = "done"

\* The vehicles that have an event carrying the role.
RoleVehicles ==
    {role_events.rows[i].vehicle_id :
        i \in {k \in DOMAIN role_events.rows :
                  role_events.has_role /\ role_events.rows[k].role = role_arg}}

\* C30: the removal by role returns an empty mapping when no event carries
\* the role and otherwise one payload for every vehicle that has an event
\* with the role and a lap-time total; the payload's original_position is
\* the vehicle's position in results_df, position_change is
\* original_position - adjusted_position, and result_improvement is
\* improved, unchanged or declined as position_change is positive, zero or
\* negative.
C30_PayloadByRole ==
    RoleDone =>
        /\ payloads.status = "ok"
        /\ DOMAIN payloads.payloads = RoleVehicles \cap LapVehicles
        /\ \A v \in DOMAIN payloads.payloads :
              LET p == payloads.payloads[v]
              IN  /\ RealPosition(results_df, v) # NaN
                        => p.original_position = RealPosition(results_df, v)[1]
                  /\ p.position_change
                        = Num(p.original_position - p.adjusted_position)
                  /\ p.result_improvement
                        = (IF p.position_change[1] > 0 THEN "improved"
                           ELSE IF p.position_change[1] = 0 THEN "unchanged"
                           ELSE "declined")

====
